---- MODULE Spec2Model ----
(***************************************************************************)
(* DMCA takedown pipeline of src/src/app/api/dmca/route.ts.                *)
(*                                                                         *)
(* POST is an async handler: the code between two awaits runs as one step  *)
(* of the single-threaded event loop, and each awaited store call is one   *)
(* step of the store.  Several POST requests are in flight at once (one    *)
(* per slot of Slots); their steps interleave at the awaits.               *)
(***************************************************************************)
EXTENDS Integers, Sequences, FiniteSets, TLC

VARIABLES
    now,            \* Date.now(), in milliseconds since the process started
    rateLimitMap,   \* route.ts:42  Map<ip, {count, resetAt}>
    links,          \* table chapterLink: id -> row
    audit,          \* table linkSubmissionAudit (append-only), in insertion order
    claims,         \* table dmcaRequest: claims[i] is the row whose id is i
    req,            \* the POST requests in flight: slot -> locals of the handler
    getResp,        \* the last GET exchange: query and response
    window          \* history: per key, start and admissions of the current window

vars == <<now, rateLimitMap, links, audit, claims, req, getResp, window>>

----------------------------------------------------------------------------
(* Program constants *)

RATE_LIMIT_MAX == 5
RATE_LIMIT_WINDOW == 3600000

(* Bounds of the model *)

\* The clock runs up to MaxWindows * (RATE_LIMIT_WINDOW + 1).
MaxWindows == 1
\* Requests are accepted while fewer than MaxClaims claims exist or may be created.
MaxClaims == 2

Slots == {"r1", "r2"}

\* An optional value (null, undefined or absent in the code) is None or Some(v).
None == <<>>
Some(v) == <<v>>
Val(o) == o[1]

----------------------------------------------------------------------------
(* Strings are sequences of one-character strings. *)

UpperCase == <<"H", "T", "P", "S", "X">>
LowerCase == <<"h", "t", "p", "s", "x">>

\* String.prototype.toLowerCase on one character
lowerChar(c) ==
    IF \E i \in 1..Len(UpperCase) : UpperCase[i] = c
    THEN LowerCase[CHOOSE i \in 1..Len(UpperCase) : UpperCase[i] = c]
    ELSE c

toLowerCase(s) == [i \in 1..Len(s) |-> lowerChar(s[i])]

IsSpace(c) == c = " "

RECURSIVE trimStart(_)
trimStart(s) ==
    IF s # <<>> /\ IsSpace(Head(s)) THEN trimStart(Tail(s)) ELSE s

RECURSIVE trimEnd(_)
trimEnd(s) ==
    IF s # <<>> /\ IsSpace(s[Len(s)]) THEN trimEnd(SubSeq(s, 1, Len(s) - 1)) ELSE s

\* String.prototype.trim
trim(s) == trimEnd(trimStart(s))

StartsWith(s, p) == Len(s) >= Len(p) /\ SubSeq(s, 1, Len(p)) = p

HttpPrefix  == <<"h", "t", "t", "p", ":", "/", "/">>
HttpsPrefix == <<"h", "t", "t", "p", "s", ":", "/", "/">>

\* .replace(/^https?:\/\//, '')   (case-sensitive: no i flag)
stripScheme(s) ==
    IF StartsWith(s, HttpsPrefix) THEN SubSeq(s, Len(HttpsPrefix) + 1, Len(s))
    ELSE IF StartsWith(s, HttpPrefix) THEN SubSeq(s, Len(HttpPrefix) + 1, Len(s))
    ELSE s

\* .replace(/\/+$/, '')
RECURSIVE stripTrailingSlashes(_)
stripTrailingSlashes(s) ==
    IF s # <<>> /\ s[Len(s)] = "/"
    THEN stripTrailingSlashes(SubSeq(s, 1, Len(s) - 1))
    ELSE s

\* route.ts:104-106
normalizedUrl(target_url) ==
    stripTrailingSlashes(stripScheme(trim(toLowerCase(target_url))))

----------------------------------------------------------------------------
(* The request headers and the key of the rate limiter *)

Header(xff, xri) == [x_forwarded_for |-> xff, x_real_ip |-> xri]

\* x-forwarded-for is given as the list its value splits into at ','.
HeaderSets ==
    { Header(Some(<<"ip1", "ip2">>), None),
      Header(None, Some("ip1")),
      Header(None, None) }

\* route.ts:67-69
ClientIp(h) ==
    IF h.x_forwarded_for # None /\ Val(h.x_forwarded_for)[1] # ""
    THEN Val(h.x_forwarded_for)[1]
    ELSE IF h.x_real_ip # None /\ Val(h.x_real_ip) # ""
    THEN Val(h.x_real_ip)
    ELSE "unknown"

Ips == { ClientIp(h) : h \in HeaderSets }

----------------------------------------------------------------------------
(* The rate limiter, route.ts:42-61 *)

NoRecord == [count |-> 0, resetAt |-> 0]

\* Mutant: the limit is compared with > instead of >=.
checkRateLimit_OffByOne(map, ip, t) ==
    LET record == map[ip] IN
    IF record = NoRecord \/ t > record.resetAt
    THEN [allowed |-> TRUE,
          map |-> [map EXCEPT ![ip] = [count |-> 1, resetAt |-> t + RATE_LIMIT_WINDOW]]]
    ELSE IF record.count > RATE_LIMIT_MAX
    THEN [allowed |-> FALSE, map |-> map]
    ELSE [allowed |-> TRUE, map |-> [map EXCEPT ![ip].count = @ + 1]]

\* Mutant: the increment is applied to a copy of the record, as when the check
\* and the write are two steps, and is lost.
checkRateLimit_LostUpdate(map, ip, t) ==
    LET record == map[ip] IN
    IF record = NoRecord \/ t > record.resetAt
    THEN [allowed |-> TRUE,
          map |-> [map EXCEPT ![ip] = [count |-> 1, resetAt |-> t + RATE_LIMIT_WINDOW]]]
    ELSE IF record.count >= RATE_LIMIT_MAX
    THEN [allowed |-> FALSE, map |-> map]
    ELSE [allowed |-> TRUE, map |-> map]

\* Mutant: a denied call is counted too.
checkRateLimit_CountsDenied(map, ip, t) ==
    LET record == map[ip] IN
    IF record = NoRecord \/ t > record.resetAt
    THEN [allowed |-> TRUE,
          map |-> [map EXCEPT ![ip] = [count |-> 1, resetAt |-> t + RATE_LIMIT_WINDOW]]]
    ELSE [allowed |-> record.count < RATE_LIMIT_MAX,
          map |-> [map EXCEPT ![ip].count = @ + 1]]

\* route.ts:46-61.  The record of a key that the Map does not hold is NoRecord
\* (count 0); a record the code stores has count >= 1.
checkRateLimit(map, ip, t) ==
    LET record == map[ip] IN
    IF record = NoRecord \/ t > record.resetAt
    THEN [allowed |-> TRUE,
          map |-> [map EXCEPT ![ip] = [count |-> 1, resetAt |-> t + RATE_LIMIT_WINDOW]]]
    ELSE IF record.count >= RATE_LIMIT_MAX
    THEN [allowed |-> FALSE, map |-> map]
    ELSE [allowed |-> TRUE, map |-> [map EXCEPT ![ip].count = @ + 1]]

\* History of the admissions of one key: the window that the latest admission
\* falls in (it starts at the first admission after the previous window elapsed)
\* and the number of admissions in it.  No action reads it.
NoWindow == [start |-> 0, n |-> 0]

Admitted(w, t) ==
    IF w.n = 0 \/ t > w.start + RATE_LIMIT_WINDOW
    THEN [start |-> t, n |-> 1]
    ELSE [w EXCEPT !.n = @ + 1]

----------------------------------------------------------------------------
(* The catalog *)

N1 == <<"x", "/", "1">>

Link(series, norm, status, deleted) ==
    [series_id |-> series, url_normalized |-> norm, status |-> status, deleted_at |-> deleted]

\* Two links share the normalized URL x/1 (the schema does not make it unique);
\* L2 is a link that is neither active nor removed.
InitLinks ==
    [id \in {"L1", "L2"} |->
        CASE id = "L1" -> Link("S1", N1, "active", None)
          [] id = "L2" -> Link("S2", N1, "hidden", None)]

----------------------------------------------------------------------------
(* The request body and dmcaRequestSchema, route.ts:21-39 *)

\* work_title, claim_details, requester_name and requester_company are given by
\* their lengths; the two statements are "true", "false" or "absent".
Emails == {"a@x.com", "b@x.com"}
Uuids == {"L1", "L2", "L9"}

U1 == <<"H", "T", "T", "P", "S", ":", "/", "/", "X", "/", "1", "/">>
U2 == <<"h", "t", "t", "p", ":", "/", "/", "x", "/", "2">>
UBad == <<"x", "/", "1">>

Body(contact, url, id) ==
    [requester_contact |-> contact,
     requester_name |-> None,
     requester_company |-> None,
     target_url |-> url,
     target_link_id |-> id,
     work_title |-> 1,
     claim_details |-> 20,
     good_faith_statement |-> "true",
     accuracy_statement |-> "true"]

\* By URL (x/1 matches, x/2 does not), by id (L9 is no link), and by both.
Targets ==
    { <<Some(U1), None>>, <<Some(U2), None>>,
      <<None, Some("L9")>>,
      <<Some(U1), Some("L2")>> }

ValidBodies == { Body(c, t[1], t[2]) : c \in Emails, t \in Targets }

B0 == Body("a@x.com", Some(U1), None)

InvalidBodies ==
    { [B0 EXCEPT !.requester_contact = "not-an-email"],
      [B0 EXCEPT !.target_url = None],
      [B0 EXCEPT !.target_url = Some(UBad)],
      [B0 EXCEPT !.target_url = None, !.target_link_id = Some("not-a-uuid")],
      [B0 EXCEPT !.work_title = 0],
      [B0 EXCEPT !.work_title = 501],
      [B0 EXCEPT !.claim_details = 19],
      [B0 EXCEPT !.claim_details = 5001],
      [B0 EXCEPT !.good_faith_statement = "false"],
      [B0 EXCEPT !.good_faith_statement = "absent"],
      [B0 EXCEPT !.accuracy_statement = "false"],
      [B0 EXCEPT !.requester_name = Some(0)],
      [B0 EXCEPT !.requester_company = Some(201)] }

\* A request carries Some(fields) when its body is JSON and None when it is not.
\* The inputs of Spec (the pipeline): one client, one requester.
PipelineHeaders == { Header(Some(<<"ip1", "ip2">>), None) }
PipelineBodies ==
    { Some(b) : b \in { v \in ValidBodies : v.requester_contact = "a@x.com" } }
    \cup { Some([B0 EXCEPT !.good_faith_statement = "false"]), None }

\* The inputs of SpecRate (the rate limiter): every client, bodies that end the
\* request before it reaches a store.
RateBodies == { Some([B0 EXCEPT !.good_faith_statement = "false"]), None }

\* The inputs of SpecIntake (the validation): the bodies of the pipeline and
\* every body that fails the schema.
IntakeBodies == PipelineBodies \cup { Some(b) : b \in InvalidBodies }

\* z.string().email()
IsEmail(c) == c \in Emails

\* z.string().uuid()
IsUuid(id) == id \in Uuids

\* z.string().url(): the string parses as a URL.  Of the strings used here,
\* those that do are the ones with an http or https scheme and something after it.
IsUrl(u) ==
    LET t == trim(toLowerCase(u)) IN
    \/ StartsWith(t, HttpsPrefix) /\ Len(t) > Len(HttpsPrefix)
    \/ StartsWith(t, HttpPrefix) /\ Len(t) > Len(HttpPrefix)

\* Mutant: the schema lacks the refinement of good_faith_statement.
fieldErrors_NoGoodFaith(b) ==
    {f \in {"requester_contact"} : ~IsEmail(b.requester_contact)}
    \cup {f \in {"requester_name"} :
            b.requester_name # None
            /\ (Val(b.requester_name) < 1 \/ Val(b.requester_name) > 200)}
    \cup {f \in {"requester_company"} :
            b.requester_company # None /\ Val(b.requester_company) > 200}
    \cup {f \in {"target_url"} :
            \/ b.target_url # None /\ ~IsUrl(Val(b.target_url))
            \/ b.target_url = None /\ b.target_link_id = None}
    \cup {f \in {"target_link_id"} :
            b.target_link_id # None /\ ~IsUuid(Val(b.target_link_id))}
    \cup {f \in {"work_title"} : b.work_title < 1 \/ b.work_title > 500}
    \cup {f \in {"claim_details"} : b.claim_details < 20 \/ b.claim_details > 5000}
    \cup {f \in {"accuracy_statement"} : b.accuracy_statement # "true"}

\* route.ts:21-39: the fields of the body that fail the schema
fieldErrors(b) ==
    {f \in {"requester_contact"} : ~IsEmail(b.requester_contact)}
    \cup {f \in {"requester_name"} :
            b.requester_name # None
            /\ (Val(b.requester_name) < 1 \/ Val(b.requester_name) > 200)}
    \cup {f \in {"requester_company"} :
            b.requester_company # None /\ Val(b.requester_company) > 200}
    \cup {f \in {"target_url"} :
            \/ b.target_url # None /\ ~IsUrl(Val(b.target_url))
            \/ b.target_url = None /\ b.target_link_id = None}
    \cup {f \in {"target_link_id"} :
            b.target_link_id # None /\ ~IsUuid(Val(b.target_link_id))}
    \cup {f \in {"work_title"} : b.work_title < 1 \/ b.work_title > 500}
    \cup {f \in {"claim_details"} : b.claim_details < 20 \/ b.claim_details > 5000}
    \cup {f \in {"good_faith_statement"} : b.good_faith_statement # "true"}
    \cup {f \in {"accuracy_statement"} : b.accuracy_statement # "true"}

\* route.ts:84-86  validation.success
safeParse(b) == fieldErrors(b) = {}

----------------------------------------------------------------------------
(* The stores *)

\* Mutant: the query lacks deleted_at: null.
findFirstMatches_WithDeleted(ls, norm) ==
    {id \in DOMAIN ls : ls[id].url_normalized = norm}

\* prisma.chapterLink.findFirst({where: {url_normalized, deleted_at: null}}),
\* route.ts:108-119: the ids of the rows that match.  The query has no orderBy,
\* so the store may return any one of them.
findFirstMatches(ls, norm) ==
    {id \in DOMAIN ls : ls[id].url_normalized = norm /\ ls[id].deleted_at = None}

\* prisma.chapterLink.findUnique({where: {id}}), route.ts:125-133
findUnique(ls, id) ==
    IF id \in DOMAIN ls THEN Some([id |-> id, series_id |-> ls[id].series_id]) ELSE None

\* Mutant: the claim is created as 'processing'.
NewClaim_Processing(id, data, targetLinkId, targetLink) ==
    [id |-> id,
     requester_contact |-> data.requester_contact,
     target_url |-> data.target_url,
     target_link_id |-> targetLinkId,
     target_series_id |-> IF targetLink = None THEN None ELSE Some(Val(targetLink).series_id),
     work_title |-> data.work_title,
     status |-> "processing"]

\* The row prisma.dmcaRequest.create inserts, route.ts:137-149
NewClaim(id, data, targetLinkId, targetLink) ==
    [id |-> id,
     requester_contact |-> data.requester_contact,
     target_url |-> data.target_url,
     target_link_id |-> targetLinkId,
     target_series_id |-> IF targetLink = None THEN None ELSE Some(Val(targetLink).series_id),
     work_title |-> data.work_title,
     status |-> "pending"]

\* Mutant: the update sets the status and leaves deleted_at alone.
SoftDelete_NoTimestamp(ls, id, t) == [ls EXCEPT ![id].status = "removed"]

\* tx.chapterLink.update, route.ts:155-161
SoftDelete(ls, id, t) ==
    [ls EXCEPT ![id].status = "removed", ![id].deleted_at = Some(t)]

\* The row tx.linkSubmissionAudit.create inserts, route.ts:164-176
AuditEntry(linkId, ip, claimId, data) ==
    [chapter_link_id |-> linkId,
     action |-> "dmca_remove",
     actor_ip |-> ip,
     dmca_request_id |-> claimId,
     requester_contact |-> data.requester_contact]

TxOutcomes == {"commit", "update_fails", "audit_fails"}

\* Mutant: the two writes are not in one transaction, so a failing audit insert
\* leaves the link updated.
RemovalTransaction_NoRollback(ls, au, linkId, ip, claimId, data, t, outcome) ==
    LET updated == [ls EXCEPT ![linkId].status = "removed", ![linkId].deleted_at = Some(t)]
    IN  IF outcome = "commit"
        THEN [ok |-> TRUE, links |-> updated,
              audit |-> Append(au, [chapter_link_id |-> linkId, action |-> "dmca_remove",
                                    actor_ip |-> ip, dmca_request_id |-> claimId,
                                    requester_contact |-> data.requester_contact])]
        ELSE IF outcome = "audit_fails"
        THEN [ok |-> FALSE, links |-> updated, audit |-> au]
        ELSE [ok |-> FALSE, links |-> ls, audit |-> au]

\* Mutant: the error of a failed transaction is swallowed.
RemovalTransaction_Swallow(ls, au, linkId, ip, claimId, data, t, outcome) ==
    IF outcome = "commit"
    THEN [ok |-> TRUE,
          links |-> [ls EXCEPT ![linkId].status = "removed", ![linkId].deleted_at = Some(t)],
          audit |-> Append(au, [chapter_link_id |-> linkId, action |-> "dmca_remove",
                                actor_ip |-> ip, dmca_request_id |-> claimId,
                                requester_contact |-> data.requester_contact])]
    ELSE [ok |-> TRUE, links |-> ls, audit |-> au]

\* prisma.$transaction, route.ts:153-177: the two writes commit together; when
\* either throws, the transaction is rolled back and the error is rethrown.
RemovalTransaction(ls, au, linkId, ip, claimId, data, t, outcome) ==
    LET updated == SoftDelete(ls, linkId, t)
        logged == Append(au, AuditEntry(linkId, ip, claimId, data))
    IN  IF outcome = "commit"
        THEN [ok |-> TRUE, links |-> updated, audit |-> logged]
        ELSE [ok |-> FALSE, links |-> ls, audit |-> au]

\* Mutant: the update writes 'resolved'.
AdvanceStatus_Resolved(cs, id) == [cs EXCEPT ![id].status = "resolved"]

\* prisma.dmcaRequest.update({data: {status: 'processing'}}), route.ts:180-183
AdvanceStatus(cs, id) == [cs EXCEPT ![id].status = "processing"]

----------------------------------------------------------------------------
(* The POST handler, route.ts:63-204 *)

NoResp == [status |-> 0, link_removed |-> FALSE, request_id |-> None, details |-> {}]

Idle ==
    [pc |-> "idle", ip |-> "", body |-> None, targetLinkId |-> None,
     targetLink |-> None, dmcaRequest |-> None, resp |-> NoResp]

\* NextResponse.json(..., {status}) and the return: the locals are gone; the
\* slot keeps the client the response went to.
Respond(r, status, removed, id, details) ==
    [Idle EXCEPT !.pc = "done", !.ip = r.ip,
                 !.resp = [status |-> status, link_removed |-> removed,
                           request_id |-> id, details |-> details]]

\* Mutant: the handler is run again from the start after a failure.
Caught_Retry(r) == [r EXCEPT !.pc = "parse", !.targetLinkId = None,
                             !.targetLink = None, !.dmcaRequest = None]

\* route.ts:197-203
Caught(r) == Respond(r, 500, FALSE, None, {})

\* Slots are names for the requests in flight, nothing of the program: a new
\* request takes the first slot that is free.
Before(a, b) == a = "r1" /\ b = "r2"

InFlight == {s \in Slots : req[s].pc \in {"parse", "resolve", "create"}}

Init ==
    /\ now = 0
    /\ rateLimitMap = [ip \in Ips |-> NoRecord]
    /\ links = InitLinks
    /\ audit = <<>>
    /\ claims = <<>>
    /\ req = [s \in Slots |-> Idle]
    /\ getResp = None
    /\ window = [ip \in Ips |-> NoWindow]

\* route.ts:66-80: a request arrives; the handler reads the headers and asks
\* the rate limiter.  b is the body the request carries: Some(fields) when it
\* is JSON, None when it is not.
Submit(s, h, b) ==
    /\ req[s].pc \in {"idle", "done"}
    /\ \A o \in Slots : req[o].pc \in {"idle", "done"} => ~Before(o, s)
    /\ Len(claims) + Cardinality(InFlight) < MaxClaims
    /\ LET ip == ClientIp(h)
           rl == checkRateLimit(rateLimitMap, ip, now)
       IN  /\ rateLimitMap' = rl.map
           /\ IF rl.allowed
              THEN /\ req' = [req EXCEPT ![s] =
                            [Idle EXCEPT !.pc = "parse", !.ip = ip, !.body = b]]
                   /\ window' = [window EXCEPT ![ip] = Admitted(@, now)]
              ELSE /\ req' = [req EXCEPT ![s] =
                            Respond([Idle EXCEPT !.ip = ip], 429, FALSE, None, {})]
                   /\ UNCHANGED window
    /\ UNCHANGED <<now, links, audit, claims, getResp>>

\* Mutant: a submission that fails validation gives its unit of quota back.
Parse_Refund(s) ==
    /\ req[s].pc = "parse"
    /\ LET r == req[s]
           invalid == r.body # None /\ fieldErrors(Val(r.body)) # {}
       IN  /\ req' = [req EXCEPT ![s] =
                    IF r.body = None THEN Respond(r, 500, FALSE, None, {})
                    ELSE IF invalid
                    THEN Respond(r, 400, FALSE, None, fieldErrors(Val(r.body)))
                    ELSE [r EXCEPT !.pc = "resolve",
                                   !.targetLinkId = Val(r.body).target_link_id]]
           /\ rateLimitMap' =
                    IF invalid THEN [rateLimitMap EXCEPT ![r.ip].count = @ - 1]
                    ELSE rateLimitMap
    /\ UNCHANGED <<now, links, audit, claims, getResp, window>>

\* route.ts:83-96: request.json(), which throws when the body is not JSON, and
\* the validation.
Parse(s) ==
    /\ req[s].pc = "parse"
    /\ LET r == req[s]
       IN  req' = [req EXCEPT ![s] =
                IF r.body = None THEN Caught(r)
                ELSE IF ~safeParse(Val(r.body))
                THEN Respond(r, 400, FALSE, None, fieldErrors(Val(r.body)))
                ELSE [r EXCEPT !.pc = "resolve",
                               !.targetLinkId = Val(r.body).target_link_id]]
    /\ UNCHANGED <<now, rateLimitMap, links, audit, claims, getResp, window>>

\* Mutant: the URL is looked up whenever the body gives one.
lookupByUrl_UrlFirst(data, targetLinkId) == data.target_url # None

\* route.ts:102  if (data.target_url && !targetLinkId)
lookupByUrl(data, targetLinkId) == data.target_url # None /\ targetLinkId = None

\* route.ts:102-134: the lookup of the target, by URL or by id.
Resolve(s, ok) ==
    /\ req[s].pc = "resolve"
    /\ LET data == Val(req[s].body)
           byUrl == lookupByUrl(data, req[s].targetLinkId)
           byId == ~byUrl /\ req[s].targetLinkId # None
           found == IF byUrl
                    THEN {Some([id |-> id, series_id |-> links[id].series_id]) :
                            id \in findFirstMatches(links, normalizedUrl(Val(data.target_url)))}
                    ELSE IF byId THEN {findUnique(links, Val(req[s].targetLinkId))}
                    ELSE {None}
       IN  IF ~ok /\ (byUrl \/ byId)
           THEN req' = [req EXCEPT ![s] = Caught(@)]
           ELSE \E t \in (IF found = {} THEN {None} ELSE found) :
                req' = [req EXCEPT ![s] =
                    [@ EXCEPT !.pc = "create",
                              !.targetLink = t,
                              !.targetLinkId =
                                  IF byUrl /\ t # None THEN Some(Val(t).id) ELSE @]]
    /\ UNCHANGED <<now, rateLimitMap, links, audit, claims, getResp, window>>

\* route.ts:137-149 and, when no link was found, 188-195.
Create(s, ok) ==
    /\ req[s].pc = "create"
    /\ IF ~ok
       THEN /\ req' = [req EXCEPT ![s] = Caught(@)]
            /\ UNCHANGED claims
       ELSE LET id == Len(claims) + 1
                r == [req[s] EXCEPT !.dmcaRequest = Some(id)]
            IN  /\ claims' = Append(claims,
                        NewClaim(id, Val(r.body), r.targetLinkId, r.targetLink))
                /\ req' = [req EXCEPT ![s] =
                        IF r.targetLink # None
                        THEN [r EXCEPT !.pc = "tx"]
                        ELSE Respond(r, 201, FALSE, Some(id), {})]
    /\ UNCHANGED <<now, rateLimitMap, links, audit, getResp, window>>

\* route.ts:152-177
Remove(s, outcome) ==
    /\ req[s].pc = "tx"
    /\ LET r == req[s]
           tx == RemovalTransaction(links, audit, Val(r.targetLink).id, r.ip,
                                    Val(r.dmcaRequest), Val(r.body), now, outcome)
       IN  /\ links' = tx.links
           /\ audit' = tx.audit
           /\ req' = [req EXCEPT ![s] =
                    IF tx.ok THEN [r EXCEPT !.pc = "advance"] ELSE Caught(r)]
    /\ UNCHANGED <<now, rateLimitMap, claims, getResp, window>>

\* Mutant: a failure of the status update is swallowed and the request is
\* answered 201.
Advance_Swallow(s, ok) ==
    /\ req[s].pc = "advance"
    /\ claims' = IF ok THEN [claims EXCEPT ![Val(req[s].dmcaRequest)].status = "processing"]
                 ELSE claims
    /\ req' = [req EXCEPT ![s] =
                [pc |-> "done", ip |-> @.ip, body |-> None, targetLinkId |-> None,
                 targetLink |-> None, dmcaRequest |-> None,
                 resp |-> [status |-> 201, link_removed |-> TRUE,
                           request_id |-> @.dmcaRequest, details |-> {}]]]
    /\ UNCHANGED <<now, rateLimitMap, links, audit, getResp, window>>

\* route.ts:179-195
Advance(s, ok) ==
    /\ req[s].pc = "advance"
    /\ IF ~ok
       THEN /\ req' = [req EXCEPT ![s] = Caught(@)]
            /\ UNCHANGED claims
       ELSE /\ claims' = AdvanceStatus(claims, Val(req[s].dmcaRequest))
            /\ req' = [req EXCEPT ![s] = Respond(@, 201, TRUE, @.dmcaRequest, {})]
    /\ UNCHANGED <<now, rateLimitMap, links, audit, getResp, window>>

\* Time passes: to the last instant of a window that starts now, or just past it.
Tick(d) ==
    /\ now + d <= MaxWindows * (RATE_LIMIT_WINDOW + 1)
    /\ now' = now + d
    /\ UNCHANGED <<rateLimitMap, links, audit, claims, req, getResp, window>>

Next ==
    \/ \E s \in Slots, h \in PipelineHeaders, b \in PipelineBodies : Submit(s, h, b)
    \/ \E s \in Slots : Parse(s)
    \/ \E s \in Slots, ok \in BOOLEAN : Resolve(s, ok)
    \/ \E s \in Slots, ok \in BOOLEAN : Create(s, ok)
    \/ \E s \in Slots, outcome \in TxOutcomes : Remove(s, outcome)
    \/ \E s \in Slots, ok \in BOOLEAN : Advance(s, ok)
    \/ Tick(RATE_LIMIT_WINDOW + 1)

\* The pipeline: concurrent submissions of one client against the stores.
Spec == Init /\ [][Next]_vars

NextRate ==
    \/ \E s \in Slots, h \in HeaderSets, b \in RateBodies : Submit(s, h, b)
    \/ \E s \in Slots : Parse(s)
    \/ \E d \in {RATE_LIMIT_WINDOW, RATE_LIMIT_WINDOW + 1} : Tick(d)

\* The rate limiter: submissions of every client, as time passes.
SpecRate == Init /\ [][NextRate]_vars

NextIntake ==
    \/ \E s \in Slots, h \in PipelineHeaders, b \in IntakeBodies : Submit(s, h, b)
    \/ \E s \in Slots : Parse(s)
    \/ \E s \in Slots, ok \in BOOLEAN : Resolve(s, ok)
    \/ \E s \in Slots, ok \in BOOLEAN : Create(s, ok)
    \/ \E s \in Slots, outcome \in TxOutcomes : Remove(s, outcome)
    \/ \E s \in Slots, ok \in BOOLEAN : Advance(s, ok)

\* The validation: the pipeline, fed also every kind of invalid body, at one
\* instant.
SpecIntake == Init /\ [][NextIntake]_vars

----------------------------------------------------------------------------
(* The GET handler, route.ts:207-254 *)

\* prisma.dmcaRequest.findFirst({where: {id, requester_contact}, select}),
\* route.ts:220-234: the selected fields of a row that matches, or null.
Select(c) ==
    [id |-> c.id, status |-> c.status, work_title |-> c.work_title,
     target_url |-> c.target_url]

findClaim(cs, id, email) ==
    LET hits == {i \in 1..Len(cs) : cs[i].id = id /\ cs[i].requester_contact = email}
    IN  IF hits = {} THEN None ELSE Some(Select(cs[CHOOSE i \in hits : TRUE]))

Reply(status, error, request) == [status |-> status, error |-> error, request |-> request]

\* Mutant: a claim that exists under another contact is answered 403.
NotFound_TellsApart(cs, id) ==
    IF \E i \in 1..Len(cs) : cs[i].id = id
    THEN Reply(403, "Email does not match", None)
    ELSE Reply(404, "Request not found or email does not match", None)

\* route.ts:236-241
NotFound(cs, id) == Reply(404, "Request not found or email does not match", None)

\* route.ts:207-254: the response to GET ?id=&email=; a parameter is None when
\* it is missing or empty.
GetResponse(cs, id, email, ok) ==
    IF id = None \/ email = None
    THEN Reply(400, "Missing required parameters: id and email", None)
    ELSE IF ~ok THEN Reply(500, "Internal server error", None)
    ELSE LET dmcaRequest == findClaim(cs, Val(id), Val(email))
         IN  IF dmcaRequest = None
             THEN NotFound(cs, Val(id))
             ELSE Reply(200, "", dmcaRequest)

\* The ids and contacts a caller may ask with: the ids of the claims and one
\* more, the contacts of the requesters and, for the case of the letters,
\* "A@x.com".
QueryIds == {None} \cup {Some(i) : i \in 1..(MaxClaims + 1)}
QueryEmails == {None} \cup {Some(e) : e \in Emails \cup {"A@x.com"}}

GET(id, email, ok) ==
    /\ getResp' = Some([id |-> id, email |-> email, ok |-> ok,
                        response |-> GetResponse(claims, id, email, ok)])
    /\ UNCHANGED <<now, rateLimitMap, links, audit, claims, req, window>>

\* A store as submissions leave it: claim i is of requester ContactOf[i] and is
\* either 'pending' with a URL that matched no link, or 'processing' after the
\* removal of L1.  The process has restarted since: the rate limiter is empty.
StoredClaim(i, contact, status) ==
    IF status = "pending"
    THEN NewClaim(i, Body(contact, Some(U2), None), None, None)
    ELSE [NewClaim(i, Body(contact, Some(U1), None), Some("L1"),
                   Some([id |-> "L1", series_id |-> "S1"]))
            EXCEPT !.status = "processing"]

ClaimStores ==
    UNION { { [i \in 1..n |-> StoredClaim(i, cf[i], sf[i])] :
                cf \in [1..n -> Emails], sf \in [1..n -> {"pending", "processing"}] } :
            n \in 0..MaxClaims }

AuditOf(cs) ==
    LET F[n \in 0..Len(cs)] ==
            IF n = 0 THEN <<>>
            ELSE IF cs[n].status = "processing"
            THEN Append(F[n - 1], AuditEntry("L1", "ip1", n,
                                             [requester_contact |-> cs[n].requester_contact]))
            ELSE F[n - 1]
    IN  F[Len(cs)]

InitGet ==
    /\ now = 0
    /\ rateLimitMap = [ip \in Ips |-> NoRecord]
    /\ window = [ip \in Ips |-> NoWindow]
    /\ req = [s \in Slots |-> Idle]
    /\ getResp = None
    /\ claims \in ClaimStores
    /\ audit = AuditOf(claims)
    /\ links = IF audit = <<>> THEN InitLinks ELSE SoftDelete(InitLinks, "L1", 0)

NextGet ==
    \E id \in QueryIds, email \in QueryEmails, ok \in BOOLEAN : GET(id, email, ok)

\* The status lookup, against every store of up to MaxClaims claims.
SpecGet == InitGet /\ [][NextGet]_vars

\* The inputs of SpecLifecycle: a submission whose URL matches a link and one
\* whose URL matches none, and the lookups of the first claim by either requester.
LifecycleBodies == { Some(Body("a@x.com", Some(U1), None)), Some(Body("a@x.com", Some(U2), None)) }
LifecycleEmails == { Some("a@x.com"), Some("b@x.com") }

NextLifecycle ==
    \/ \E s \in Slots, h \in PipelineHeaders, b \in LifecycleBodies : Submit(s, h, b)
    \/ \E s \in Slots : Parse(s)
    \/ \E s \in Slots, ok \in BOOLEAN : Resolve(s, ok)
    \/ \E s \in Slots, ok \in BOOLEAN : Create(s, ok)
    \/ \E s \in Slots, outcome \in TxOutcomes : Remove(s, outcome)
    \/ \E s \in Slots, ok \in BOOLEAN : Advance(s, ok)
    \/ \E email \in LifecycleEmails, ok \in BOOLEAN : GET(Some(1), email, ok)

\* The life of the claims: submissions and status lookups, interleaved.
SpecLifecycle == Init /\ [][NextLifecycle]_vars

\* The inputs of SpecResolve.  A second catalog, where no two links share a
\* normalized URL; a URL with spaces around it, a scheme in mixed case and two
\* trailing slashes, which normalizes to x/1 as U1 does.
N2 == <<"x", "/", "2">>

SoloLinks ==
    [id \in {"L1", "L2"} |->
        CASE id = "L1" -> Link("S1", N1, "active", None)
          [] id = "L2" -> Link("S2", N2, "hidden", None)]

Catalogs == {InitLinks, SoloLinks}

U3 == <<" ", "H", "t", "t", "P", ":", "/", "/", "x", "/", "1", "/", "/", " ">>

ResolveBodies ==
    { Some(Body("a@x.com", Some(U1), None)),
      Some(Body("a@x.com", Some(U3), None)),
      Some(Body("a@x.com", None, Some("L1"))) }

InitResolve ==
    /\ now = 0
    /\ rateLimitMap = [ip \in Ips |-> NoRecord]
    /\ links \in Catalogs
    /\ audit = <<>>
    /\ claims = <<>>
    /\ req = [s \in Slots |-> Idle]
    /\ getResp = None
    /\ window = [ip \in Ips |-> NoWindow]

NextResolve ==
    \/ \E s \in Slots, h \in PipelineHeaders, b \in ResolveBodies : Submit(s, h, b)
    \/ \E s \in Slots : Parse(s)
    \/ \E s \in Slots, ok \in BOOLEAN : Resolve(s, ok)
    \/ \E s \in Slots, ok \in BOOLEAN : Create(s, ok)
    \/ \E s \in Slots, outcome \in TxOutcomes : Remove(s, outcome)
    \/ \E s \in Slots, ok \in BOOLEAN : Advance(s, ok)

\* The resolver: submissions by URL and by id against either catalog.
SpecResolve == InitResolve /\ [][NextResolve]_vars

\* The inputs of SpecLive: a valid body, one that fails validation and one that
\* is not JSON.
LiveBodies == { Some(B0), Some([B0 EXCEPT !.accuracy_statement = "false"]), None }

\* The continuation of the request in the slot: the step that runs when the
\* promise it awaits settles, with either outcome.
Continue(s) ==
    \/ Parse(s)
    \/ \E ok \in BOOLEAN : Resolve(s, ok)
    \/ \E ok \in BOOLEAN : Create(s, ok)
    \/ \E outcome \in TxOutcomes : Remove(s, outcome)
    \/ \E ok \in BOOLEAN : Advance(s, ok)

NextLive ==
    \/ \E s \in Slots, h \in PipelineHeaders, b \in LiveBodies : Submit(s, h, b)
    \/ \E s \in Slots : Continue(s)

\* Every awaited call returns or fails in the end, and the event loop then runs
\* the continuation of the request.
SpecLive == Init /\ [][NextLive]_vars /\ \A s \in Slots : WF_vars(Continue(s))

\* The inputs of SpecQuota: every client, with a valid body or one that fails
\* validation.
QuotaBodies == { Some(B0), Some([B0 EXCEPT !.claim_details = 19]) }

NextQuota ==
    \/ \E s \in Slots, h \in HeaderSets, b \in QuotaBodies : Submit(s, h, b)
    \/ \E s \in Slots : Parse(s)
    \/ \E s \in Slots, ok \in BOOLEAN : Resolve(s, ok)
    \/ \E s \in Slots, ok \in BOOLEAN : Create(s, ok)
    \/ \E s \in Slots, outcome \in TxOutcomes : Remove(s, outcome)
    \/ \E s \in Slots, ok \in BOOLEAN : Advance(s, ok)

\* The quota of two clients, whose submissions reach the stores, at one instant.
SpecQuota == Init /\ [][NextQuota]_vars

----------------------------------------------------------------------------
(* Properties of the removal *)

\* The 'dmca_remove' audit entries of a link
RemovalEntries(a, id) ==
    {i \in 1..Len(a) : a[i].action = "dmca_remove" /\ a[i].chapter_link_id = id}

\* The links the pipeline set to 'removed'
RemovedByPipeline ==
    {id \in DOMAIN links : links[id].status = "removed" /\ InitLinks[id].status # "removed"}

\* The slot took a step
Stepped(s) == req'[s] # req[s]

\* C1: every link that the pipeline set to 'removed' has exactly one
\* 'dmca_remove' audit entry, and that entry carries the id of a claim whose
\* target is the link.  The code appends one entry per committed removal.
C1_ExactlyOneAuditEntry ==
    \A id \in RemovedByPipeline :
        /\ Cardinality(RemovalEntries(audit, id)) = 1
        /\ \A i \in RemovalEntries(audit, id) :
              /\ audit[i].dmca_request_id \in 1..Len(claims)
              /\ claims[audit[i].dmca_request_id].target_link_id = Some(id)

\* C2: the removal step, reached for a link that is already 'removed', appends
\* no audit entry and leaves the link's status and deleted_at as they were
\* (whether or not the store then fails).
C2_RemovalIdempotent ==
    [][\A s \in Slots :
          (/\ req[s].pc = "tx"
           /\ Stepped(s)
           /\ links[Val(req[s].targetLink).id].status = "removed")
          => (audit' = audit /\ links' = links)]_vars

\* The two parts of C3_RemovalAtomic
C3_State ==
    /\ \A i \in 1..Len(audit) :
          /\ links[audit[i].chapter_link_id].status = "removed"
          /\ links[audit[i].chapter_link_id].deleted_at # None
    /\ \A id \in DOMAIN links :
          links[id] # InitLinks[id] => RemovalEntries(audit, id) # {}

C3_Step ==
    /\ links' # links =>
          /\ Len(audit') = Len(audit) + 1
          /\ SubSeq(audit', 1, Len(audit)) = audit
          /\ \A id \in DOMAIN links :
                links'[id] # links[id] => audit'[Len(audit')].chapter_link_id = id
    /\ audit' # audit =>
          /\ Len(audit') = Len(audit) + 1
          /\ SubSeq(audit', 1, Len(audit)) = audit
          /\ links'[audit'[Len(audit')].chapter_link_id].status = "removed"
          /\ links'[audit'[Len(audit')].chapter_link_id].deleted_at = Some(now)
    /\ \A s \in Slots :
          (req[s].pc = "tx" /\ req'[s].pc = "done") => (links' = links /\ audit' = audit)

\* C3: the link update and the audit entry of one attempt commit together or
\* not at all.  A step that changes a link appends the entry of that link; a
\* step that appends an entry leaves its link 'removed' with deleted_at set;
\* an attempt that fails leaves both stores as they were; and in every state
\* each entry's link is removed and each link the pipeline changed has an entry.
C3_RemovalAtomic == [](C3_State) /\ [][C3_Step]_vars

\* A claim whose removal was attempted and failed, beside one that committed.
FailedAttempt(c) ==
    /\ c.status = "pending"
    /\ c.target_link_id # None
    /\ Val(c.target_link_id) \in DOMAIN links
    /\ \A s \in Slots : req[s].dmcaRequest # Some(c.id)
    /\ \A i \in 1..Len(audit) : audit[i].dmca_request_id # c.id

C3_Witness ==
    /\ \E i \in 1..Len(claims) : FailedAttempt(claims[i])
    /\ \E i \in 1..Len(claims) : claims[i].status = "processing"

Produced201(s, removed) ==
    /\ req[s].pc = "done"
    /\ req[s].resp.status = 201
    /\ req[s].resp.link_removed = removed

\* The two parts of C4_ResolvedSubmission
C4_State ==
    \A s \in Slots :
        Produced201(s, TRUE) =>
            LET c == claims[Val(req[s].resp.request_id)]
                l == Val(c.target_link_id)
            IN  /\ links[l].status = "removed"
                /\ links[l].deleted_at # None
                /\ Cardinality({i \in RemovalEntries(audit, l) :
                                    audit[i].dmca_request_id = c.id}) = 1
                /\ c.status = "processing"

C4_Step ==
    \A s \in Slots :
        (req[s].targetLink # None /\ Stepped(s)) =>
            \/ req'[s].pc = "done" /\ req'[s].resp.status = 500
            \/ req[s].pc = "create" /\ req'[s].pc = "tx"
                  /\ Len(claims') = Len(claims) + 1
                  /\ req'[s].dmcaRequest = Some(Len(claims'))
            \/ req[s].pc = "tx" /\ req'[s].pc = "advance"
                  /\ links'[Val(req[s].targetLink).id].status = "removed"
            \/ req[s].pc = "advance"
                  /\ req'[s].pc = "done"
                  /\ req'[s].resp.status = 201
                  /\ req'[s].resp.link_removed
                  /\ req'[s].resp.request_id = req[s].dmcaRequest

\* C4: when a 201 response reports link_removed: true, the claim it names has a
\* target link that is 'removed' with deleted_at set, exactly one 'dmca_remove'
\* entry references that link and that claim, and the claim is 'processing'; a
\* submission whose target resolved and whose store calls all succeed ends so.
C4_ResolvedSubmission == [](C4_State) /\ [][C4_Step]_vars

C4_Witness == \E s \in Slots : Produced201(s, TRUE) /\ now > 0

\* The target of a validated body resolves to no link: the id it gives is no
\* link's or, when it gives no id, no link that is not deleted has its URL.
Unresolvable(data) ==
    IF data.target_link_id # None
    THEN Val(data.target_link_id) \notin DOMAIN links
    ELSE \A id \in DOMAIN links :
            links[id].deleted_at = None =>
                links[id].url_normalized # normalizedUrl(Val(data.target_url))

\* The two parts of C5_UnresolvedSubmission
C5_State ==
    \A s \in Slots :
        Produced201(s, FALSE) =>
            claims[Val(req[s].resp.request_id)].status = "pending"

C5_Step ==
    \A s \in Slots :
        /\ (req[s].pc = "resolve" /\ Stepped(s) /\ Unresolvable(Val(req[s].body))) =>
              /\ UNCHANGED <<links, audit, claims>>
              /\ \/ req'[s].pc = "done" /\ req'[s].resp.status = 500
                 \/ req'[s].pc = "create" /\ req'[s].targetLink = None
        /\ (req[s].pc = "create" /\ Stepped(s) /\ req[s].targetLink = None) =>
              /\ UNCHANGED <<links, audit>>
              /\ \/ req'[s].pc = "done" /\ req'[s].resp.status = 500 /\ claims' = claims
                 \/ /\ Len(claims') = Len(claims) + 1
                    /\ SubSeq(claims', 1, Len(claims)) = claims
                    /\ claims'[Len(claims')].status = "pending"
                    /\ req'[s] = Respond(req[s], 201, FALSE, Some(Len(claims')), {})

\* C5: a valid submission whose target does not resolve changes no link and
\* appends no audit entry; unless a store call fails it creates one claim,
\* 'pending', and answers 201 with link_removed: false; and the claim that such
\* a response names stays 'pending'.
C5_UnresolvedSubmission == [](C5_State) /\ [][C5_Step]_vars

\* Both ways of not resolving have ended in a 201: by URL and by id.
C5_Witness ==
    /\ \A s \in Slots : Produced201(s, FALSE)
    /\ \E i \in 1..Len(claims) : claims[i].target_link_id = None
    /\ \E i \in 1..Len(claims) : claims[i].target_link_id = Some("L9")
    /\ links = InitLinks /\ audit = <<>>

\* C8: a claim is 'processing' only if its target link is 'removed' and an
\* audit entry of that link carries the claim's id; every other claim is
\* 'pending'.
C8_ProcessingOnlyAfterRemoval ==
    \A i \in 1..Len(claims) :
        LET c == claims[i] IN
        /\ c.id = i
        /\ c.status \in {"pending", "processing"}
        /\ c.status = "processing" =>
              /\ c.target_link_id # None
              /\ Val(c.target_link_id) \in DOMAIN links
              /\ links[Val(c.target_link_id)].status = "removed"
              /\ \E j \in RemovalEntries(audit, Val(c.target_link_id)) :
                    audit[j].dmca_request_id = c.id

\* One claim advanced, and one whose removal committed is still 'pending'.
C8_Witness ==
    /\ \E i \in 1..Len(claims) : claims[i].status = "processing"
    /\ \E i \in 1..Len(claims) :
          /\ claims[i].status = "pending"
          /\ \E j \in 1..Len(audit) : audit[j].dmca_request_id = i
          /\ \A s \in Slots : req[s].dmcaRequest # Some(i)

----------------------------------------------------------------------------
(* Properties of the rate limiter *)

\* The slot's step is a call of checkRateLimit that admits, that denies
Admits(s) == req[s].pc \in {"idle", "done"} /\ req'[s].pc = "parse"
Denies(s) ==
    /\ req[s].pc \in {"idle", "done"}
    /\ Stepped(s)
    /\ req'[s].pc = "done"
    /\ req'[s].resp.status = 429

\* The window of the key is open at the present time
InWindow(w) == w.n > 0 /\ now <= w.start + RATE_LIMIT_WINDOW

\* The two parts of C6_FixedWindow
C6_State ==
    \A ip \in Ips :
        /\ window[ip].n <= RATE_LIMIT_MAX
        /\ rateLimitMap[ip].count = window[ip].n
        /\ window[ip].n > 0 =>
              rateLimitMap[ip].resetAt = window[ip].start + RATE_LIMIT_WINDOW

C6_Step ==
    \A s \in Slots :
        /\ Admits(s) =>
              LET ip == req'[s].ip IN
              IF InWindow(window[ip])
              THEN /\ window[ip].n < RATE_LIMIT_MAX
                   /\ rateLimitMap'[ip] =
                          [rateLimitMap[ip] EXCEPT !.count = window[ip].n + 1]
              ELSE rateLimitMap'[ip] =
                          [count |-> 1, resetAt |-> now + RATE_LIMIT_WINDOW]
        /\ Denies(s) =>
              /\ InWindow(window[req'[s].ip])
              /\ window[req'[s].ip].n = RATE_LIMIT_MAX
              /\ rateLimitMap' = rateLimitMap

\* C6: for every key, a call within an open window is admitted when fewer than
\* RATE_LIMIT_MAX calls were admitted in it, and then the count goes up by one;
\* it is denied, and changes nothing, when RATE_LIMIT_MAX were; a call made
\* when no window is open (none yet, or resetAt is past) is admitted, sets the
\* count to 1 and starts a window of RATE_LIMIT_WINDOW at the time of the call.
C6_FixedWindow == [](C6_State) /\ [][C6_Step]_vars

\* A key was denied at the last instant of its window and, the window elapsed,
\* admitted again.
C6_Witness ==
    \E ip \in Ips :
        /\ window[ip].start > 0
        /\ window[ip].n = 1
        /\ now = window[ip].start
        /\ \E s \in Slots : req[s].pc = "done" /\ req[s].resp.status = 429 /\ req[s].ip = ip

\* C7: under every interleaving of concurrent requests of one key, no more
\* than RATE_LIMIT_MAX of them are admitted within one window.
C7_AtomicAdmission ==
    \A ip \in Ips :
        InWindow(window[ip]) => window[ip].n <= RATE_LIMIT_MAX

\* Two requests of one key are in flight when its window is full.
C7_Witness ==
    \E ip \in Ips :
        /\ window[ip].n = RATE_LIMIT_MAX
        /\ \A s \in Slots :
              req[s].ip = ip /\ req[s].pc \in {"resolve", "create", "tx", "advance"}

----------------------------------------------------------------------------
(* Properties of the validation *)

\* The body fails validation in one of the ways the claim lists.
FailsValidation(b) ==
    \/ ~IsEmail(b.requester_contact)
    \/ b.target_url = None /\ b.target_link_id = None
    \/ b.work_title \notin 1..500
    \/ b.claim_details \notin 20..5000
    \/ b.good_faith_statement # "true"
    \/ b.accuracy_statement # "true"

\* The two parts of C10_ValidationFirst
C10_State ==
    /\ \A s \in Slots :
          req[s].pc \in {"resolve", "create", "tx", "advance"} =>
              ~FailsValidation(Val(req[s].body))
    /\ \A i \in 1..Len(claims) :
          /\ IsEmail(claims[i].requester_contact)
          /\ claims[i].work_title \in 1..500
          /\ claims[i].target_url # None \/ claims[i].target_link_id # None

C10_Step ==
    \A s \in Slots :
        (/\ req[s].pc = "parse"
         /\ Stepped(s)
         /\ req[s].body # None
         /\ FailsValidation(Val(req[s].body)))
        => /\ req'[s].pc = "done"
           /\ req'[s].resp.status = 400
           /\ req'[s].resp.details # {}
           /\ UNCHANGED <<links, audit, claims, rateLimitMap>>

\* C10: a submission whose body fails validation is answered 400 at the
\* validation step, which changes no store; no request past that step, and no
\* claim in the store, has such a body.
C10_ValidationFirst == [](C10_State) /\ [][C10_Step]_vars

\* A body with good_faith_statement false was answered 400, and so was one
\* without a target, while the stores hold what valid submissions left.
C10_Witness ==
    /\ req["r1"].pc = "done" /\ req["r1"].resp.status = 400
    /\ req["r1"].resp.details = {"good_faith_statement"}
    /\ req["r2"].pc = "done" /\ req["r2"].resp.status = 400
    /\ req["r2"].resp.details = {"target_url"}
    /\ Len(claims) > 0

----------------------------------------------------------------------------
(* Properties of the status lookup *)

Exists(id) == \E i \in 1..Len(claims) : claims[i].id = id
Matches(id, email) ==
    \E i \in 1..Len(claims) : claims[i].id = id /\ claims[i].requester_contact = email

\* What a caller is told when nothing is found: the same whatever the store holds.
NotFoundReply == Reply(404, "Request not found or email does not match", None)

\* C9: when the store answers, a lookup with an id that does not exist and a
\* lookup with an id that exists under another contact get one and the same
\* response, the 404; a lookup with the id and the contact of a claim gets
\* that claim's public view.
C9_LookupDoesNotDisclose ==
    getResp # None =>
        LET q == Val(getResp) IN
        (q.id # None /\ q.email # None /\ q.ok) =>
            IF Matches(Val(q.id), Val(q.email))
            THEN /\ q.response.status = 200
                 /\ q.response.request # None
                 /\ Val(q.response.request).id = Val(q.id)
                 /\ Val(q.response.request) = Select(claims[Val(q.id)])
            ELSE q.response = NotFoundReply

\* A lookup of an existing claim under another contact was answered.
C9_Witness ==
    /\ getResp # None
    /\ Val(getResp).id # None /\ Val(getResp).email # None /\ Val(getResp).ok
    /\ Exists(Val(Val(getResp).id))
    /\ ~Matches(Val(Val(getResp).id), Val(Val(getResp).email))
    /\ Val(getResp).response.status = 404

----------------------------------------------------------------------------
(* Properties of the failures *)

\* The two parts of C11_FailedRemovalKeepsClaim
C11_State ==
    \A i \in 1..Len(claims) :
        (/\ \A j \in 1..Len(audit) : audit[j].dmca_request_id # i
         /\ \A s \in Slots : req[s].dmcaRequest # Some(i))
        => claims[i].status = "pending"

C11_Step ==
    \A s \in Slots :
        (req[s].pc = "tx" /\ Stepped(s)) =>
            LET id == Val(req[s].dmcaRequest) IN
            \/ /\ req'[s].pc = "advance"
               /\ Len(audit') = Len(audit) + 1
               /\ audit'[Len(audit')].dmca_request_id = id
            \/ /\ req'[s].pc = "done"
               /\ req'[s].resp = [NoResp EXCEPT !.status = 500]
               /\ UNCHANGED <<links, audit, claims>>
               /\ id \in 1..Len(claims')
               /\ claims'[id].id = id
               /\ claims'[id].status = "pending"

\* C11: a removal transaction that fails after the claim was created ends the
\* submission with the 500 response and leaves the links, the audit log and
\* the claims as they were: the claim is still there and 'pending'; and a
\* claim whose removal left no audit entry stays 'pending' afterwards.
C11_FailedRemovalKeepsClaim == [](C11_State) /\ [][C11_Step]_vars

\* A transaction failed: the request was answered 500, its claim is 'pending',
\* no link has changed and the audit log is empty.
C11_Witness ==
    /\ \E s \in Slots : req[s].pc = "done" /\ req[s].resp.status = 500
    /\ \E i \in 1..Len(claims) : FailedAttempt(claims[i])
    /\ links = InitLinks
    /\ audit = <<>>

----------------------------------------------------------------------------
(* Properties of the resolver *)

\* The body of the request in the slot names its target by id
ById(s) == req[s].body # None /\ Val(req[s].body).target_link_id # None

\* The two parts of C12_IdTakesPrecedence
C12_State ==
    \A s \in Slots :
        (ById(s) /\ req[s].pc \in {"create", "tx", "advance"}) =>
            /\ req[s].targetLinkId = Val(req[s].body).target_link_id
            /\ req[s].targetLink = findUnique(links, Val(Val(req[s].body).target_link_id))

C12_Step ==
    \A s \in Slots :
        (ById(s) /\ Stepped(s)) =>
            LET id == Val(Val(req[s].body).target_link_id) IN
            /\ req[s].pc = "resolve" =>
                  \/ req'[s].pc = "done" /\ req'[s].resp.status = 500
                  \/ /\ req'[s].targetLink = findUnique(links, id)
                     /\ req'[s].targetLinkId = Some(id)
            /\ req[s].pc = "create" /\ claims' # claims =>
                  claims'[Len(claims')].target_link_id = Some(id)
            /\ \A l \in DOMAIN links : links'[l] # links[l] => l = id
            /\ audit' # audit => audit'[Len(audit')].chapter_link_id = id

\* C12: when the body gives target_link_id, the target is the link with that
\* id, or none when no link has it, whatever target_url is: the lookup returns
\* findUnique of the id, the claim records that id, and the only link the
\* request changes, and the link of the audit entry it appends, is that one.
C12_IdTakesPrecedence == [](C12_State) /\ [][C12_Step]_vars

\* A request that gave both the id of L2 and a URL that L1 matches has removed
\* L2; L1 still matches the URL.
C12_Witness ==
    \E s \in Slots :
        /\ req[s].pc = "advance"
        /\ Val(req[s].body).target_link_id = Some("L2")
        /\ Val(req[s].body).target_url # None
        /\ "L1" \in findFirstMatches(links, normalizedUrl(Val(Val(req[s].body).target_url)))
        /\ links["L2"].status = "removed"
        /\ links["L1"] = InitLinks["L1"]

\* The request in the slot has just looked its target up by URL
ResolvedByUrl(s) ==
    /\ req[s].pc = "create"
    /\ Val(req[s].body).target_link_id = None
    /\ Val(req[s].body).target_url # None

\* C13: two submissions that give the same URL and looked it up against the
\* same catalog state (no link has changed since the first state) have the
\* same target link.  The query of the code has no orderBy, so the store may
\* return either of two links that share the normalized URL.
C13_ResolverDeterministic ==
    \A s1, s2 \in Slots :
        (/\ ResolvedByUrl(s1)
         /\ ResolvedByUrl(s2)
         /\ normalizedUrl(Val(Val(req[s1].body).target_url))
                = normalizedUrl(Val(Val(req[s2].body).target_url))
         /\ links = InitLinks)
        => req[s1].targetLink = req[s2].targetLink

\* C14: every step that changes a link changes one that is 'active' with no
\* deleted_at into the same link 'removed' with deleted_at the present time;
\* a link that is already 'removed', or in any other status, is never changed.
\* The code updates whatever link was resolved, without reading its status.
C14_OnlyActiveToRemoved ==
    [][\A id \in DOMAIN links :
          links'[id] # links[id] =>
              /\ links[id].status = "active"
              /\ links[id].deleted_at = None
              /\ links'[id] = [links[id] EXCEPT !.status = "removed",
                                                !.deleted_at = Some(now)]]_vars

----------------------------------------------------------------------------
(* Properties of the claims *)

\* The removal of the claim's link has committed: the link is 'removed' and an
\* audit entry of it carries the claim's id.
RemovalCommitted(ls, au, c) ==
    /\ c.target_link_id # None
    /\ Val(c.target_link_id) \in DOMAIN ls
    /\ ls[Val(c.target_link_id)].status = "removed"
    /\ ls[Val(c.target_link_id)].deleted_at # None
    /\ \E j \in RemovalEntries(au, Val(c.target_link_id)) : au[j].dmca_request_id = c.id

\* The two parts of C15_FailedAdvanceKeepsRemoval
C15_State ==
    \A s \in Slots :
        req[s].pc = "advance" =>
            /\ RemovalCommitted(links, audit, claims[Val(req[s].dmcaRequest)])
            /\ claims[Val(req[s].dmcaRequest)].status = "pending"

C15_Step ==
    /\ \A s \in Slots :
          (req[s].pc = "advance" /\ Stepped(s)) =>
              LET id == Val(req[s].dmcaRequest) IN
              \/ /\ req'[s].resp.status = 201
                 /\ claims'[id].status = "processing"
              \/ /\ req'[s].pc = "done"
                 /\ req'[s].resp = [NoResp EXCEPT !.status = 500]
                 /\ UNCHANGED <<links, audit, claims>>
                 /\ RemovalCommitted(links', audit', claims'[id])
                 /\ claims'[id].status = "pending"
    /\ \A l \in DOMAIN links :
          links[l].status = "removed" =>
              links'[l].status = "removed" /\ links'[l].deleted_at # None
    /\ Len(audit') >= Len(audit) /\ SubSeq(audit', 1, Len(audit)) = audit

\* C15: when the update of the claim to 'processing' fails after the removal
\* committed, the request is answered 500 and nothing is undone: the link is
\* 'removed' with its audit entry and the claim is 'pending'; no later step
\* un-removes a link or drops an audit entry.
C15_FailedAdvanceKeepsRemoval == [](C15_State) /\ [][C15_Step]_vars

\* The status update failed: the request was answered 500 and its claim is
\* 'pending' although its link is removed and logged.
C15_Witness ==
    \E i \in 1..Len(claims) :
        /\ claims[i].status = "pending"
        /\ RemovalCommitted(links, audit, claims[i])
        /\ \A s \in Slots : req[s].dmcaRequest # Some(i)
        /\ \E s \in Slots : req[s].pc = "done" /\ req[s].resp.status = 500
        /\ Len(audit) = 1

\* The two parts of C16_ClaimLifecycleMonotonic
C16_State ==
    \A i \in 1..Len(claims) :
        /\ claims[i].id = i
        /\ claims[i].status \in {"pending", "processing"}

C16_Step ==
    /\ Len(claims') \in {Len(claims), Len(claims) + 1}
    /\ \A i \in 1..Len(claims) :
          \/ claims'[i] = claims[i]
          \/ /\ claims[i].status = "pending"
             /\ claims'[i] = [claims[i] EXCEPT !.status = "processing"]
    /\ Len(claims') = Len(claims) + 1 =>
          /\ claims'[Len(claims')].id = Len(claims')
          /\ claims'[Len(claims')].status = "pending"
    /\ getResp' # getResp => claims' = claims

\* C16: each claim has an id of its own and is 'pending' or 'processing'; a
\* step adds at most one claim, 'pending', and otherwise leaves each claim as
\* it is or moves it from 'pending' to 'processing'; no claim goes back or is
\* deleted, and a status lookup changes none.
C16_ClaimLifecycleMonotonic == [](C16_State) /\ [][C16_Step]_vars

\* A lookup saw the first claim 'pending'; it is 'processing' now, beside a
\* second claim.
C16_Witness ==
    /\ getResp # None
    /\ Val(getResp).response.status = 200
    /\ Val(Val(getResp).response.request).status = "pending"
    /\ Len(claims) = 2
    /\ claims[1].status = "processing"

----------------------------------------------------------------------------
(* Properties of the resolution by URL *)

\* The request in the slot is about to look its target up by URL
ResolvingByUrl(s) ==
    /\ req[s].pc = "resolve"
    /\ Val(req[s].body).target_link_id = None
    /\ Val(req[s].body).target_url # None

\* The normalized URL of the request in the slot
NormOf(s) == normalizedUrl(Val(Val(req[s].body).target_url))

\* C17 as stated: a lookup by the URL of a link that is already removed finds
\* nothing.  It finds another link when one that is not deleted shares the
\* normalized URL.
C17_RemovedUrlResolvesToNothing ==
    [][\A s \in Slots :
          (/\ ResolvingByUrl(s)
           /\ Stepped(s)
           /\ \E l \in DOMAIN links :
                 links[l].url_normalized = NormOf(s) /\ links[l].status = "removed")
          => \/ req'[s].pc = "done" /\ req'[s].resp.status = 500
             \/ req'[s].pc = "create" /\ req'[s].targetLink = None]_vars

\* The two parts of C17_ByUrlSelectsLiveExactMatch
C17_State ==
    \A s \in Slots :
        (Produced201(s, FALSE) /\ req[s].resp.request_id # None) =>
            claims[Val(req[s].resp.request_id)].status = "pending"

C17_Step ==
    \A s \in Slots :
        /\ (ResolvingByUrl(s) /\ Stepped(s)) =>
              /\ UNCHANGED <<links, audit, claims>>
              /\ \/ req'[s].pc = "done" /\ req'[s].resp.status = 500
                 \/ /\ req'[s].pc = "create"
                    /\ req'[s].targetLink = None
                    /\ \A l \in DOMAIN links :
                          links[l].url_normalized = NormOf(s) => links[l].deleted_at # None
                 \/ /\ req'[s].pc = "create"
                    /\ req'[s].targetLink # None
                    /\ LET l == Val(req'[s].targetLink).id IN
                       /\ links[l].deleted_at = None
                       /\ links[l].url_normalized = NormOf(s)
                       /\ req'[s].targetLinkId = Some(l)
        /\ (req[s].pc = "create" /\ req[s].targetLink = None /\ Stepped(s)) =>
              /\ UNCHANGED <<links, audit>>
              /\ \/ req'[s].pc = "done" /\ req'[s].resp.status = 500 /\ claims' = claims
                 \/ /\ Len(claims') = Len(claims) + 1
                    /\ claims'[Len(claims')].status = "pending"
                    /\ claims'[Len(claims')].target_link_id = req[s].targetLinkId
                    /\ req'[s].pc = "done"
                    /\ req'[s].resp.status = 201
                    /\ ~req'[s].resp.link_removed

\* C17, amended: a lookup by URL selects only a link whose deleted_at is null
\* and whose url_normalized is the normalized URL of the body, and finds nothing
\* exactly when every link with that normalized URL is deleted; so after a
\* removal the removed link is never selected again, and when no other link
\* shares its URL the submission creates a 'pending' claim, answers 201 with
\* link_removed: false and changes neither a link nor the audit log.
C17_ByUrlSelectsLiveExactMatch == [](C17_State) /\ [][C17_Step]_vars

\* L1 was removed and is the only link with x/1; a later submission by that URL
\* ended with link_removed: false and a 'pending' claim without a target.
C17_Witness ==
    /\ links["L1"].status = "removed"
    /\ links["L2"].url_normalized # N1
    /\ Len(audit) = 1
    /\ Len(claims) = 2
    /\ claims[1].status = "processing"
    /\ claims[2].status = "pending"
    /\ claims[2].target_link_id = None
    /\ normalizedUrl(Val(claims[2].target_url)) = links["L1"].url_normalized
    /\ \E s \in Slots : Produced201(s, FALSE) /\ req[s].resp.request_id = Some(2)

----------------------------------------------------------------------------
(* Properties of the responses *)

\* The place of a step in the handler
Rank(pc) ==
    CASE pc = "parse" -> 1
      [] pc = "resolve" -> 2
      [] pc = "create" -> 3
      [] pc = "tx" -> 4
      [] pc = "advance" -> 5
      [] pc = "done" -> 6
      [] OTHER -> 0

Running(s) == req[s].pc \in {"parse", "resolve", "create", "tx", "advance"}

Responded(s) == req[s].pc = "done" /\ req[s].resp.status \in {201, 400, 429, 500}

\* The three parts of C18_EveryPostIsAnswered
C18_State ==
    \A s \in Slots :
        /\ req[s].pc \in {"idle", "parse", "resolve", "create", "tx", "advance", "done"}
        /\ req[s].pc = "done" => req[s].resp.status \in {201, 400, 429, 500}
        /\ req[s].pc # "done" => req[s].resp = NoResp

C18_Step ==
    \A s \in Slots :
        (Running(s) /\ Stepped(s)) =>
            /\ Rank(req'[s].pc) > Rank(req[s].pc)
            /\ req'[s].pc = "done" =>
                  \/ req'[s].resp.status = 500
                  \/ req[s].pc = "parse" /\ req'[s].resp.status = 400
                  \/ req[s].pc \in {"create", "advance"} /\ req'[s].resp.status = 201

C18_Live == \A s \in Slots : Running(s) ~> Responded(s)

\* C18: a request that was admitted ends with a response, when every call it
\* awaits returns or fails; a request has no response until it ends and then
\* one of 201, 400, 429 and 500; and each step of a request goes forward in
\* the handler or ends it, with 500 unless the step is the validation (400)
\* or the last store call of the request (201): no step is run again.
C18_EveryPostIsAnswered == [](C18_State) /\ [][C18_Step]_vars /\ C18_Live

\* One request was denied while another was in flight, and that one ended
\* with 500 when its removal transaction failed, after its claim was created.
C18_Witness ==
    /\ req["r1"].pc = "done" /\ req["r1"].resp.status = 500
    /\ req["r2"].pc = "done" /\ req["r2"].resp.status = 429
    /\ \E i \in 1..Len(claims) : FailedAttempt(claims[i])

----------------------------------------------------------------------------
(* Properties of the quota *)

\* The slot's step is a call of checkRateLimit
Arrives(s) == req[s].pc \in {"idle", "done"} /\ Stepped(s)

\* The key has used its quota up and its window is open
Exhausted(ip) ==
    /\ rateLimitMap[ip] # NoRecord
    /\ rateLimitMap[ip].count >= RATE_LIMIT_MAX
    /\ now <= rateLimitMap[ip].resetAt

\* The two parts of C19_AdmissionConsumesQuota
C19_State ==
    \A ip \in Ips :
        /\ rateLimitMap[ip].count = window[ip].n
        /\ rateLimitMap[ip].count <= RATE_LIMIT_MAX

C19_Step ==
    \A s \in Slots :
        /\ (Running(s) /\ Stepped(s)) => rateLimitMap' = rateLimitMap
        /\ Admits(s) =>
              LET ip == req'[s].ip IN
              rateLimitMap'[ip].count =
                  IF rateLimitMap[ip] = NoRecord \/ now > rateLimitMap[ip].resetAt
                  THEN 1
                  ELSE rateLimitMap[ip].count + 1
        /\ (Arrives(s) /\ Exhausted(req'[s].ip)) =>
              req'[s].pc = "done" /\ req'[s].resp.status = 429

\* C19: the count of a key is the number of its submissions admitted in the
\* window, whatever became of them: an admission adds one (or starts the
\* window at one) before the body is read, no later step of a request, whether
\* it ends in 201, 400 or 500, changes the record, and once RATE_LIMIT_MAX
\* were admitted every submission of the key in the window gets 429.
C19_AdmissionConsumesQuota == [](C19_State) /\ [][C19_Step]_vars

\* Five submissions were admitted in the window, of which one created a claim
\* and one was answered 400; the sixth was answered 429.
C19_Witness ==
    /\ window["ip1"].n = RATE_LIMIT_MAX
    /\ Len(claims) = 1
    /\ claims[1].status = "processing"
    /\ req["r1"].pc = "done" /\ req["r1"].resp.status = 429
    /\ req["r2"].pc = "done" /\ req["r2"].resp.status = 400

\* The two parts of C20_DenialChangesNothing
C20_State ==
    \A s \in Slots :
        (req[s].pc = "done" /\ req[s].resp.status = 429) =>
            req[s].resp = [NoResp EXCEPT !.status = 429]

C20_Step ==
    \A s \in Slots :
        /\ Denies(s) =>
              /\ UNCHANGED <<rateLimitMap, links, audit, claims>>
              /\ req'[s].resp.details = {}
              /\ req'[s].resp.request_id = None
        /\ Arrives(s) =>
              \A ip \in Ips : ip # req'[s].ip => rateLimitMap'[ip] = rateLimitMap[ip]

\* C20: a step that answers 429 leaves the record of every key, the links,
\* the audit log and the claims as they were, and its response carries neither
\* validation details nor a claim id; a call of the rate limiter for one key,
\* admitted or denied, leaves the records of the other keys as they were.
C20_DenialChangesNothing == [](C20_State) /\ [][C20_Step]_vars

\* One key was denied, after submissions left a removed link and a claim, while
\* the other key still has quota and a request in flight.
C20_Witness ==
    \E s, o \in Slots :
        /\ req[s].pc = "done" /\ req[s].resp.status = 429
        /\ rateLimitMap[req[s].ip].count = RATE_LIMIT_MAX
        /\ Running(o)
        /\ req[o].ip # req[s].ip
        /\ rateLimitMap[req[o].ip].count \in 1..(RATE_LIMIT_MAX - 1)
        /\ Len(audit) > 0

====
